---- MODULE Spec2Model ----
(***************************************************************************)
(* Model of the quotes scraper (src/scraper.py): the page fetcher with     *)
(* retries, the selector-driven extractor, the pagination loop and the     *)
(* SQLite-backed store, as run by the foreground menu thread ("main") and  *)
(* by the background scheduler thread ("sched"), and the TaskScheduler     *)
(* that registers one-shot jobs and has them run at their time.            *)
(*                                                                         *)
(* Strings that the code edits (element texts) are sequences of            *)
(* one-character strings, so that cleaning is computed, not assumed.       *)
(* An optional value (None or a value) is the empty sequence or a          *)
(* one-element sequence.                                                   *)
(***************************************************************************)
EXTENDS Integers, Sequences, FiniteSets, TLC

\* ------------------------------------------------------------------ bounds
\* largest page cap tried, and largest page number the site is asked for
MaxPagesBound == 3
\* longest batch handed to insert_quotes
MaxBatchLen == 3
\* longest batch a pipeline run hands to insert_quotes
MaxRunBatchLen == 1
\* number of pipeline runs each thread may start
MaxRuns == 1
\* most containers in a document handed to the extractor
MaxContainers == 2
\* number of jobs schedule_scrape may register
MaxJobs == 2
\* last minute the clock reaches, counted from 01/01/2030 00:00
MaxTime == 2
\* longest text of a text or author element handed to the cleaning
MaxRawLen == 4
\* most execution_history rows a caller of the store writes
MaxLedgerRows == 2

\* ------------------------------------------------------- program constants
RETRY_ATTEMPTS == 3
\* ScraperConfig.MAX_PAGES as the class is defined
DEFAULT_MAX_PAGES == 100
\* the value menu option 10 stores for "0 = no limit"
NO_LIMIT_PAGES == 999999

Threads == {"main", "sched"}

None == << >>
Some(v) == << v >>
IsNone(o) == o = << >>
Val(o) == o[1]

\* ----------------------------------------------------------------- strings
WS  == " "
DQ  == "\""

IsSpace(c) == c = WS

RECURSIVE LStrip(_)
LStrip(s) == IF s # << >> /\ IsSpace(Head(s)) THEN LStrip(Tail(s)) ELSE s

RECURSIVE RStrip(_)
RStrip(s) ==
    IF s # << >> /\ IsSpace(s[Len(s)]) THEN RStrip(SubSeq(s, 1, Len(s) - 1)) ELSE s

\* element.get_text(strip=True) of an element holding one text node
GetTextStrip(s) == RStrip(LStrip(s))

IsPrefix(p, s) == Len(p) <= Len(s) /\ SubSeq(s, 1, Len(p)) = p

\* str.replace(old, ""): every non-overlapping occurrence, left to right
RECURSIVE RemoveSub(_, _)
RemoveSub(s, old) ==
    IF s = << >> THEN << >>
    ELSE IF IsPrefix(old, s) THEN RemoveSub(SubSeq(s, Len(old) + 1, Len(s)), old)
    ELSE << Head(s) >> \o RemoveSub(Tail(s), old)

BY_PREFIX == << "b", "y", " " >>

CleanText(raw)   == RemoveSub(RemoveSub(GetTextStrip(raw), << DQ >>), << DQ >>)
CleanAuthor(raw) == RemoveSub(GetTextStrip(raw), BY_PREFIX)

\* --------------------------------------------------------------- documents
\* A container is an element matched by [class*="quote"]; its text and
\* author sub-elements are optional, its tag sub-elements a sequence.
\* A document is a sequence of containers plus the presence of li.next.

Quote(text, author, tags) == [text |-> text, author |-> author, tags |-> tags]

RECURSIVE MapGetText(_)
MapGetText(elems) ==
    IF elems = << >> THEN << >>
    ELSE << GetTextStrip(Head(elems)) >> \o MapGetText(Tail(elems))

ExtractContainer_TextOnly(c) ==
    IF IsNone(c.text) THEN << >>
    ELSE << Quote(CleanText(Val(c.text)),
                  IF IsNone(c.author) THEN << >> ELSE CleanAuthor(Val(c.author)),
                  MapGetText(c.tags)) >>

\* the body of the try block for one container: << >> when AttributeError
\* is raised (text_elem or author_elem is None), else the one Quote built
ExtractContainer(c) ==
    IF IsNone(c.text) \/ IsNone(c.author) THEN << >>
    ELSE << Quote(CleanText(Val(c.text)), CleanAuthor(Val(c.author)),
                  MapGetText(c.tags)) >>

RECURSIVE ExtractContainers(_)
ExtractContainers(cs) ==
    IF cs = << >> THEN << >>
    ELSE ExtractContainer(Head(cs)) \o ExtractContainers(Tail(cs))

\* extract_quotes_dynamic(soup) for a soup that is a document
extract_quotes_dynamic(doc) == ExtractContainers(doc.containers)

\* soup.select_one('li.next') is not None
HasNext(doc) == doc.next

\* the pages the modelled site can answer with
Cont(text, author, tags) == [text |-> text, author |-> author, tags |-> tags]

C_q1 == Cont(Some(<< DQ, "p", DQ >>), Some(<< "x" >>), << << "t" >> >>)
C_q2 == Cont(Some(<< " ", "q" >>), Some(<< "b", "y", " ", "z" >>), << >>)
C_noauthor == Cont(Some(<< "r" >>), None, << >>)

SiteContainerSeqs == { << >>, << C_q1 >>, << C_q2 >>, << C_noauthor, C_q1 >> }

SiteDocs == [containers : SiteContainerSeqs, next : BOOLEAN]

\* what session.get gives: a response with its status code, or one of the
\* exceptions of requests (code 0)
Response(kind, code) == [kind |-> kind, code |-> code]

Responses ==
    { Response("response", c) : c \in { 200, 204, 304, 404, 500 } }
    \cup { Response("Timeout", 0), Response("ConnectionError", 0) }

\* session.get raised, or response.raise_for_status() raises HTTPError: it
\* does so for the client and server error statuses
RaisesRequestException(resp) ==
    \/ resp.kind # "response"
    \/ 400 <= resp.code /\ resp.code < 600

\* ---------------------------------------------------------------- elements
\* A parsed page as BeautifulSoup holds it: an element has a tag name, the
\* value of its class attribute, the text node it starts with and its child
\* elements. The document itself is the root element.
Elem(name, cls, text, kids) == [name |-> name, cls |-> cls, text |-> text, kids |-> kids]

CLS_quote  == << "q", "u", "o", "t", "e" >>
CLS_text   == << "t", "e", "x", "t" >>
CLS_author == << "a", "u", "t", "h", "o", "r" >>
CLS_tag    == << "t", "a", "g" >>
CLS_tags   == << "t", "a", "g", "s" >>
CLS_next   == << "n", "e", "x", "t" >>

\* sub occurs in s
Contains(s, sub) ==
    \E i \in 1 .. Len(s) - Len(sub) + 1 : SubSeq(s, i, i + Len(sub) - 1) = sub

\* the attribute selector [class*="sub"]
ClassContains(e, sub) == Contains(e.cls, sub)

\* the elements below the given child elements, in document order
RECURSIVE Descendants(_)
Descendants(kids) ==
    IF kids = << >> THEN << >>
    ELSE << Head(kids) >> \o Descendants(Head(kids).kids) \o Descendants(Tail(kids))

RECURSIVE FilterClass(_, _)
FilterClass(elems, sub) ==
    IF elems = << >> THEN << >>
    ELSE (IF ClassContains(Head(elems), sub) THEN << Head(elems) >> ELSE << >>)
         \o FilterClass(Tail(elems), sub)

\* e.select('[class*="sub"]'): every matching element below e
select(e, sub) == FilterClass(Descendants(e.kids), sub)

\* e.select_one('[class*="sub"]'): the first of them, or None
select_one(e, sub) == IF select(e, sub) = << >> THEN None ELSE Some(Head(select(e, sub)))

\* e.get_text(strip=True): the stripped text nodes of e and of the
\* elements below it, in document order, joined with nothing between
RECURSIVE JoinStripped(_)
JoinStripped(elems) ==
    IF elems = << >> THEN << >>
    ELSE GetTextStrip(Head(elems).text) \o JoinStripped(Tail(elems))

get_text(e) == JoinStripped(<< e >> \o Descendants(e.kids))

RECURSIVE MapElemText(_)
MapElemText(elems) ==
    IF elems = << >> THEN << >>
    ELSE << get_text(Head(elems)) >> \o MapElemText(Tail(elems))

\* what the three selectors of the loop body find in one container
ContainerOf(e) ==
    Cont(IF IsNone(select_one(e, CLS_text)) THEN None
         ELSE Some(get_text(Val(select_one(e, CLS_text)))),
         IF IsNone(select_one(e, CLS_author)) THEN None
         ELSE Some(get_text(Val(select_one(e, CLS_author)))),
         MapElemText(select(e, CLS_tag)))

RECURSIVE MapContainerOf(_)
MapContainerOf(elems) ==
    IF elems = << >> THEN << >>
    ELSE << ContainerOf(Head(elems)) >> \o MapContainerOf(Tail(elems))

\* soup.select_one('li.next') finds an element
HasLiNext(root) ==
    \E i \in 1 .. Len(Descendants(root.kids)) :
        /\ Descendants(root.kids)[i].name = "li"
        /\ Descendants(root.kids)[i].cls = CLS_next

\* the page as extract_quotes_dynamic and scrape_all_pages see it
Soup(root) == [containers |-> MapContainerOf(select(root, CLS_quote)),
               next |-> HasLiNext(root)]

\* the pages handed to the extractor: containers with or without a text
\* and an author element, and with their tags absent, bare, or wrapped in
\* the site's <div class="tags">
E_text_p == Elem("span", CLS_text, << DQ, "p", DQ >>, << >>)
E_text_q == Elem("span", CLS_text, << "q" >>, << >>)
E_author == Elem("small", CLS_author, << "b", "y", " ", "x" >>, << >>)
E_tag_t  == Elem("a", CLS_tag, << "t" >>, << >>)
E_tag_u  == Elem("a", CLS_tag, << " ", "u" >>, << >>)

TextParts   == { << >>, << E_text_p >>, << E_text_q >> }
AuthorParts == { << >>, << E_author >> }
TagParts    == { << >>, << E_tag_t >>, << E_tag_t, E_tag_u >>,
                 << Elem("div", CLS_tags, << >>, << E_tag_t >>) >>,
                 << Elem("div", CLS_tags, << "T", ":", " " >>, << E_tag_t, E_tag_u >>) >> }

DomContainers ==
    { Elem("div", CLS_quote, << >>, t \o a \o g) :
        t \in TextParts, a \in AuthorParts, g \in TagParts }

\* ------------------------------------------------------ dates and times
\* schedule_scrape's arguments are strings: sequences of characters
DigitChars == { "0", "1", "2", "3", "4", "5", "6", "7", "8", "9" }

DigitVal(c) ==
    CASE c = "0" -> 0 [] c = "1" -> 1 [] c = "2" -> 2 [] c = "3" -> 3 [] c = "4" -> 4
      [] c = "5" -> 5 [] c = "6" -> 6 [] c = "7" -> 7 [] c = "8" -> 8 [] c = "9" -> 9

\* str.split(sep) for a one-character separator
RECURSIVE Split(_, _)
Split(str, sep) ==
    IF \A i \in 1 .. Len(str) : str[i] # sep THEN << str >>
    ELSE LET i == CHOOSE k \in 1 .. Len(str) :
                     str[k] = sep /\ \A m \in 1 .. k - 1 : str[m] # sep
         IN << SubSeq(str, 1, i - 1) >> \o Split(SubSeq(str, i + 1, Len(str)), sep)

\* int(part) returns a number (else it raises ValueError)
IntParses(part) == part # << >> /\ \A i \in 1 .. Len(part) : part[i] \in DigitChars

RECURSIVE ToInt(_)
ToInt(part) ==
    IF part = << >> THEN 0
    ELSE 10 * ToInt(SubSeq(part, 1, Len(part) - 1)) + DigitVal(part[Len(part)])

\* a, b, ... = map(int, str.split(sep)) with n targets: the numbers, or
\* None when the unpacking or an int() raises ValueError
ParseInts(str, sep, n) ==
    LET parts == Split(str, sep)
    IN IF Len(parts) = n /\ \A i \in 1 .. n : IntParses(parts[i])
       THEN Some([i \in 1 .. n |-> ToInt(parts[i])])
       ELSE None

IsLeap(year) == (year % 4 = 0 /\ year % 100 # 0) \/ year % 400 = 0

DaysInMonth(year, month) ==
    IF month = 2 THEN (IF IsLeap(year) THEN 29 ELSE 28)
    ELSE IF month \in { 4, 6, 9, 11 } THEN 30 ELSE 31

\* datetime(year, month, day, hour, minute) accepts its arguments
ValidDateTime_AnyDay(year, month, day, hour, minute) ==
    /\ year \in 1 .. 9999
    /\ month \in 1 .. 12
    /\ hour \in 0 .. 23
    /\ minute \in 0 .. 59

ValidDateTime(year, month, day, hour, minute) ==
    /\ year \in 1 .. 9999
    /\ month \in 1 .. 12
    /\ day \in 1 .. DaysInMonth(year, month)
    /\ hour \in 0 .. 23
    /\ minute \in 0 .. 59

\* the first three statements of schedule_scrape's try block: run_date, or
\* None when one of them raises ValueError
ParseRunDate(date_str, time_str) ==
    LET d == ParseInts(date_str, "/", 3)
        t == ParseInts(time_str, ":", 2)
    IN IF IsNone(d) \/ IsNone(t) THEN None
       ELSE IF ~ValidDateTime(Val(d)[3], Val(d)[2], Val(d)[1], Val(t)[1], Val(t)[2])
       THEN None
       ELSE Some([year |-> Val(d)[3], month |-> Val(d)[2], day |-> Val(d)[1],
                  hour |-> Val(t)[1], minute |-> Val(t)[2]])

\* id=f'scrape_{run_date.strftime("%Y%m%d_%H%M%S")}': the fields of run_date
JobId(dt) == << "scrape", dt.year, dt.month, dt.day, dt.hour, dt.minute, 0 >>

\* the minute of the clock a run_date stands for; the order of the ticks is
\* the order of the instants
TickOf(dt) ==
    (((dt.year - 2030) * 12 + (dt.month - 1)) * 31 + (dt.day - 1)) * 1440
    + dt.hour * 60 + dt.minute

\* the dates and times a user types: well-formed ones, and ones with a day
\* or month out of range, a wrong separator, a part that is no number, an
\* hour or minute out of range
D_ok      == << "0", "1", "/", "0", "1", "/", "2", "0", "3", "0" >>
D_day     == << "3", "0", "/", "0", "2", "/", "2", "0", "3", "0" >>
D_month   == << "0", "1", "/", "1", "3", "/", "2", "0", "3", "0" >>
D_sep     == << "0", "1", "-", "0", "1", "-", "2", "0", "3", "0" >>
D_alpha   == << "x", "x", "/", "0", "1", "/", "2", "0", "3", "0" >>
T_0000    == << "0", "0", ":", "0", "0" >>
T_0001    == << "0", "0", ":", "0", "1" >>
T_hour    == << "2", "4", ":", "0", "0" >>
T_minute  == << "0", "0", ":", "6", "0" >>
T_sep     == << "0", "0", ".", "0", "1" >>

\* the pairs (date_str, time_str) schedule_scrape is called with
ScheduleInputs ==
    { << D_ok, T_0000 >>, << D_ok, T_0001 >>,
      << D_day, T_0000 >>, << D_month, T_0000 >>, << D_sep, T_0001 >>,
      << D_alpha, T_0001 >>,
      << D_ok, T_hour >>, << D_ok, T_minute >>, << D_ok, T_sep >> }

\* ------------------------------------------------------------------- store
\* json.dumps of a list of strings: ["a", "b"], a double quote escaped
RECURSIVE JsonString(_)
JsonString(s) ==
    IF s = << >> THEN << >>
    ELSE (IF Head(s) = DQ THEN << "\\", DQ >> ELSE << Head(s) >>)
         \o JsonString(Tail(s))

RECURSIVE JsonItems(_)
JsonItems(tags) ==
    IF tags = << >> THEN << >>
    ELSE << DQ >> \o JsonString(Head(tags)) \o << DQ >>
         \o (IF Tail(tags) = << >> THEN << >> ELSE << ",", WS >>)
         \o JsonItems(Tail(tags))

JsonDumps(tags) == << "[" >> \o JsonItems(tags) \o << "]" >>

\* the row INSERT INTO quotes (text, author, tags, scraped_at) writes
Row(q) == [text |-> q.text, author |-> q.author, tags |-> JsonDumps(q.tags)]

Texts(rows) == { rows[i].text : i \in 1 .. Len(rows) }

\* the records handed to insert_quotes
T_p == << "p" >>
T_q == << "q" >>
A_x == << "x" >>
A_z == << "z" >>

ApiQuotes == { Quote(T_p, A_x, << << "t" >> >>), Quote(T_p, A_z, << >>),
               Quote(T_q, A_x, << >>), Quote(T_q, A_z, << >>) }

RunQuotes == { Quote(T_p, A_x, << << "t" >> >>), Quote(T_q, A_z, << >>) }

SeqsUpTo(S, n) == UNION { [1 .. k -> S] : k \in 0 .. n }

\* the documents handed to extract_quotes_dynamic
ExtractDocs ==
    { Elem("[document]", << >>, << >>, cs) : cs \in SeqsUpTo(DomContainers, MaxContainers) }

\* characters of the element texts the cleaning is tried on
RawChars == { "b", "y", "B", WS, DQ }

RawStrings == SeqsUpTo(RawChars, MaxRawLen)

\* documents of one container whose author element, or whose text
\* element, holds any of the raw strings
CleanDocs ==
    { Elem("[document]", << >>, << >>,
           << Elem("div", CLS_quote, << >>,
                   << E_text_q, Elem("small", CLS_author, raw, << >>) >>) >>)
        : raw \in RawStrings }
    \cup
    { Elem("[document]", << >>, << >>,
           << Elem("div", CLS_quote, << >>,
                   << Elem("span", CLS_text, raw, << >>), E_author >>) >>)
        : raw \in RawStrings }

\* batches of a direct insert_quotes call, and of a pipeline run
ApiBatches == SeqsUpTo(ApiQuotes, MaxBatchLen)
RunBatches == SeqsUpTo(RunQuotes, MaxRunBatchLen)

\* what scrape_all_pages returns to a scheduled job: nothing, or one quote
JobBatches == { << Quote(T_p, A_x, << << "t" >> >>) >> }

\* contents the quotes table may have when the process starts
StartTables == { << >>, << Row(Quote(T_p, A_z, << >>)) >> }

\* ------------------------------------------------------------------- state
VARIABLES
    pc,          \* per thread: where the thread is
    MAX_PAGES,   \* ScraperConfig.MAX_PAGES, the process-wide page limit
    max_pages,   \* per thread: scrape_all_pages' resolved page cap
    cap_arg,     \* per thread: the max_pages argument as the caller passed it
    page_num,    \* per thread: scrape_all_pages' page counter
    all_quotes,  \* per thread: scrape_all_pages' accumulator
    attempt,     \* per thread: fetch_page's loop variable
    soup,        \* per thread: value returned by the last fetch_page call
    visited,     \* per thread: page numbers fetch_page was called for, in order
    fetched,     \* per thread: what each of those fetch_page calls returned
    get_log,     \* per thread: outcome of each HTTP request of the current
                 \* fetch_page call, in order ("ok" or "fail")
    resp_log,    \* per thread: what session.get gave for each of those
                 \* requests: a response with its status, or an exception
    slept,       \* per thread: the time.sleep calls of the current fetch_page
                 \* call, in order, each with its seconds
    quotes_tbl,  \* committed rows of table quotes, in id order
    history_tbl, \* committed rows of table execution_history, in id order
    wlock,       \* the thread whose connection holds SQLite's write lock
    txn,         \* per thread: rows its open transaction has inserted
    batch,       \* per thread: insert_quotes' argument quotes
    idx,         \* per thread: position of insert_quotes' for loop
    inserted,    \* per thread: insert_quotes' counter
    ret,         \* per thread: value the last insert_quotes call returned
    runs,        \* per thread: pipeline runs started
    committed,   \* per thread: rows its last insert_quotes call committed
    tbl_start,   \* table quotes when the process started
    returned_total, \* sum of the values insert_quotes calls have returned
    tbl_before,  \* per thread: table quotes when insert_quotes was entered
    prev,        \* per thread: the call before this one, when this one
                 \* repeats it: was its batch new to the table, its return
    db_call,     \* the last init_db, get_all_quotes or get_statistics call:
                 \* the tables it found and what it returned
    ex_doc,      \* the document a caller hands to extract_quotes_dynamic
    ex_out,      \* what that call returned, None before it has returned
    sched_state, \* BackgroundScheduler's state: "stopped" or "running"
    now,         \* the clock, in minutes
    scheduled_jobs, \* TaskScheduler.scheduled_jobs, the list of job entries
    pending_jobs,   \* jobs add_job took while the scheduler was stopped
    jobstore,    \* jobs the scheduler's job store holds
    cur_job,     \* the job the pool's worker is running, or None
    pool_shut,   \* the executor's thread pool has been shut down
    job_log,     \* for each job add_job accepted, in order: its id, its
                 \* run time and what has become of it
    last_call,   \* the last call the foreground thread made and its result
    listed,      \* the object a list_scheduled call returned to its caller
    listed_val,  \* the sequence that object was when the caller got it,
                 \* with the caller's own changes applied
    stop_returned \* a stop() call has returned and no start() came after

scrape_vars == << MAX_PAGES, max_pages, cap_arg, page_num, all_quotes, attempt, soup,
                  visited, fetched, get_log, resp_log, slept >>

store_vars == << quotes_tbl, history_tbl, wlock, txn, batch, idx, inserted,
                ret, runs, committed, tbl_start, returned_total, tbl_before,
                prev >>

extract_vars == << ex_doc, ex_out >>

sched_vars == << sched_state, now, scheduled_jobs, pending_jobs, jobstore, cur_job,
                pool_shut, job_log, last_call, listed, listed_val, stop_returned >>

other_vars == << extract_vars, sched_vars, db_call >>

vars == << pc, scrape_vars, store_vars, other_vars >>

\* ------------------------------------------------------------- fetch_page
\* a caller other than the pagination loop calls fetch_page(url), as the
\* tests do; "body" is where the call has returned
FetchPageCall(t) ==
    /\ pc[t] \in { "idle", "body" }
    /\ pc' = [pc EXCEPT ![t] = "fetch"]
    /\ attempt' = [attempt EXCEPT ![t] = 0]
    /\ get_log' = [get_log EXCEPT ![t] = << >>]
    /\ resp_log' = [resp_log EXCEPT ![t] = << >>]
    /\ slept' = [slept EXCEPT ![t] = << >>]
    /\ soup' = [soup EXCEPT ![t] = None]
    /\ fetched' = [fetched EXCEPT ![t] = << >>]
    /\ UNCHANGED << other_vars, store_vars, MAX_PAGES, max_pages, cap_arg, page_num, all_quotes, visited >>

AttemptsLeft_OneMore(a) == a <= RETRY_ATTEMPTS

\* for attempt in range(RETRY_ATTEMPTS): the loop still has an iteration
AttemptsLeft(a) == a < RETRY_ATTEMPTS

\* session.get succeeds and raise_for_status passes: return the parsed page
FetchAttemptOk(t, resp, doc) ==
    /\ pc[t] = "fetch" /\ AttemptsLeft(attempt[t])
    /\ ~RaisesRequestException(resp)
    /\ get_log' = [get_log EXCEPT ![t] = Append(@, "ok")]
    /\ resp_log' = [resp_log EXCEPT ![t] = Append(@, resp)]
    /\ soup' = [soup EXCEPT ![t] = Some(doc)]
    /\ fetched' = [fetched EXCEPT ![t] = Append(@, Some(doc))]
    /\ pc' = [pc EXCEPT ![t] = "body"]
    /\ UNCHANGED << other_vars, store_vars, MAX_PAGES, max_pages, cap_arg, page_num, all_quotes, attempt, visited, slept >>

\* requests.RequestException: log, sleep 2 ** attempt, next iteration
FetchAttemptFail(t, resp) ==
    /\ pc[t] = "fetch" /\ AttemptsLeft(attempt[t])
    /\ RaisesRequestException(resp)
    /\ get_log' = [get_log EXCEPT ![t] = Append(@, "fail")]
    /\ resp_log' = [resp_log EXCEPT ![t] = Append(@, resp)]
    /\ slept' = [slept EXCEPT ![t] = Append(@, 2 ^ attempt[t])]
    /\ attempt' = [attempt EXCEPT ![t] = @ + 1]
    /\ UNCHANGED << other_vars, store_vars, pc, MAX_PAGES, max_pages, cap_arg, page_num, all_quotes, soup, visited, fetched >>

FetchExhausted(t) ==
    /\ pc[t] = "fetch"
    /\ ~AttemptsLeft(attempt[t])
    /\ soup' = [soup EXCEPT ![t] = None]
    /\ fetched' = [fetched EXCEPT ![t] = Append(@, None)]
    /\ pc' = [pc EXCEPT ![t] = "body"]
    /\ UNCHANGED << other_vars, store_vars, MAX_PAGES, max_pages, cap_arg, page_num, all_quotes, attempt,
                    visited, get_log, resp_log, slept >>

\* ------------------------------------------------------- scrape_all_pages
\* the max_pages argument: None or an integer
MaxPagesArgs == { None } \cup { Some(m) : m \in -1 .. MaxPagesBound }

ResolveMaxPages(arg) == IF IsNone(arg) THEN MAX_PAGES ELSE Val(arg)

\* entry of scrape_all_pages up to the while loop (the screenshot of the
\* first page is taken by an external collaborator and cannot raise here)
CallScrapeAllPages(t, arg) ==
    /\ pc[t] \in { "idle", "scraped" }
    /\ ResolveMaxPages(arg) <= MaxPagesBound   \* bound of the model
    /\ cap_arg' = [cap_arg EXCEPT ![t] = arg]
    /\ max_pages' = [max_pages EXCEPT ![t] = ResolveMaxPages(arg)]
    /\ all_quotes' = [all_quotes EXCEPT ![t] = << >>]
    /\ page_num' = [page_num EXCEPT ![t] = 1]
    /\ visited' = [visited EXCEPT ![t] = << >>]
    /\ fetched' = [fetched EXCEPT ![t] = << >>]
    /\ soup' = [soup EXCEPT ![t] = None]
    /\ pc' = [pc EXCEPT ![t] = "while"]
    /\ UNCHANGED << other_vars, store_vars, MAX_PAGES, attempt, get_log, resp_log, slept >>

WhileCond_NoTest(n, cap) == TRUE

\* while page_num <= max_pages
WhileCond(n, cap) == n <= cap

WhileTest_RereadsLimit(t) ==
    /\ pc[t] = "while"
    /\ IF WhileCond(page_num[t], ResolveMaxPages(cap_arg[t]))
       THEN /\ pc' = [pc EXCEPT ![t] = "fetch"]
            /\ visited' = [visited EXCEPT ![t] = Append(@, page_num[t])]
            /\ attempt' = [attempt EXCEPT ![t] = 0]
            /\ get_log' = [get_log EXCEPT ![t] = << >>]
            /\ resp_log' = [resp_log EXCEPT ![t] = << >>]
            /\ slept' = [slept EXCEPT ![t] = << >>]
       ELSE /\ pc' = [pc EXCEPT ![t] = "scraped"]
            /\ UNCHANGED << visited, attempt, get_log, resp_log, slept >>
    /\ UNCHANGED << other_vars, store_vars, MAX_PAGES, max_pages, cap_arg, page_num, all_quotes, soup, fetched >>

\* the while test; when it passes, build the url and enter fetch_page
WhileTest(t) ==
    /\ pc[t] = "while"
    /\ IF WhileCond(page_num[t], max_pages[t])
       THEN /\ pc' = [pc EXCEPT ![t] = "fetch"]
            /\ visited' = [visited EXCEPT ![t] = Append(@, page_num[t])]
            /\ attempt' = [attempt EXCEPT ![t] = 0]
            /\ get_log' = [get_log EXCEPT ![t] = << >>]
            /\ resp_log' = [resp_log EXCEPT ![t] = << >>]
            /\ slept' = [slept EXCEPT ![t] = << >>]
       ELSE /\ pc' = [pc EXCEPT ![t] = "scraped"]
            /\ UNCHANGED << visited, attempt, get_log, resp_log, slept >>
    /\ UNCHANGED << other_vars, store_vars, MAX_PAGES, max_pages, cap_arg, page_num, all_quotes, soup, fetched >>

NextPageNum_Skip(n) == n + 2

\* page_num += 1
NextPageNum(n) == n + 1

\* if page_num > max_pages: break
CapReached(n, cap) == n > cap

\* the try block for a fetched page: extract, extend, look up li.next (the
\* result, next_btn, is not read again), count the page, test the cap
LoopBodyPage(t) ==
    /\ pc[t] = "body"
    /\ ~IsNone(soup[t])
    /\ all_quotes' = [all_quotes EXCEPT
                        ![t] = @ \o extract_quotes_dynamic(Val(soup[t]))]
    /\ page_num' = [page_num EXCEPT ![t] = NextPageNum(@)]
    /\ pc' = [pc EXCEPT ![t] =
                IF CapReached(NextPageNum(page_num[t]), max_pages[t])
                THEN "scraped" ELSE "while"]
    /\ UNCHANGED << other_vars, store_vars, MAX_PAGES, max_pages, cap_arg, attempt, soup, visited, fetched,
                    get_log, resp_log, slept >>

LoopBodyNone_Continue(t) ==
    /\ pc[t] = "body"
    /\ IsNone(soup[t])
    /\ page_num' = [page_num EXCEPT ![t] = NextPageNum(@)]
    /\ pc' = [pc EXCEPT ![t] =
                IF CapReached(NextPageNum(page_num[t]), max_pages[t])
                THEN "scraped" ELSE "while"]
    /\ UNCHANGED << other_vars, store_vars, MAX_PAGES, max_pages, cap_arg, all_quotes, attempt, soup, visited,
                    fetched, get_log, resp_log, slept >>

\* the try block when fetch_page returned None: soup.select raises
\* AttributeError inside extract_quotes_dynamic, the handler breaks
LoopBodyNone(t) ==
    /\ pc[t] = "body"
    /\ IsNone(soup[t])
    /\ pc' = [pc EXCEPT ![t] = "scraped"]
    /\ UNCHANGED << other_vars, scrape_vars, store_vars >>

\* menu option 10: 0 stores NO_LIMIT_PAGES, a positive number is stored,
\* anything else is refused and changes nothing
SetPageLimit(new_limit) ==
    /\ pc["main"] \in { "idle", "scraped" }
    /\ MAX_PAGES' = IF new_limit = 0 THEN NO_LIMIT_PAGES
                    ELSE IF new_limit > 0 THEN new_limit
                    ELSE MAX_PAGES
    /\ UNCHANGED << other_vars, store_vars, pc, max_pages, cap_arg, page_num, all_quotes, attempt, soup,
                    visited, fetched, get_log, resp_log, slept >>

\* ---------------------------------------------------------- insert_quotes
\* Each call opens its own connection (sqlite3.connect, default busy
\* timeout). The first INSERT of a connection opens a transaction and takes
\* the database's write lock, held until the commit or rollback that the
\* with block ends in; rows of an open transaction are seen by it alone.

\* inserted = 0, the connection is opened, the for loop starts
InsertQuotesEntry(t, quotes, repeats) ==
    /\ batch' = [batch EXCEPT ![t] = quotes]
    /\ idx' = [idx EXCEPT ![t] = 1]
    /\ inserted' = [inserted EXCEPT ![t] = 0]
    /\ txn' = [txn EXCEPT ![t] = << >>]
    /\ ret' = [ret EXCEPT ![t] = None]
    /\ committed' = [committed EXCEPT ![t] = << >>]
    /\ tbl_before' = [tbl_before EXCEPT ![t] = quotes_tbl]
    /\ prev' = [prev EXCEPT ![t] =
                  IF repeats
                  THEN Some([fresh |-> /\ batch[t] # << >>
                                       /\ Texts(batch[t]) \cap Texts(tbl_before[t]) = { },
                             ret |-> Val(ret[t])])
                  ELSE None]
    /\ pc' = [pc EXCEPT ![t] = "insert"]

\* a caller of the library calls insert_quotes(quotes)
ApiInsertQuotes(t, quotes) ==
    /\ pc[t] \in { "idle", "inserted", "insert_raised" }
    /\ InsertQuotesEntry(t, quotes, FALSE)
    /\ UNCHANGED << other_vars, scrape_vars, quotes_tbl, history_tbl, wlock, runs, tbl_start, returned_total >>

\* the caller calls insert_quotes again with the batch of the call that
\* has just returned
ApiInsertQuotesAgain(t) ==
    /\ pc[t] = "inserted"
    /\ InsertQuotesEntry(t, batch[t], TRUE)
    /\ UNCHANGED << other_vars, scrape_vars, quotes_tbl, history_tbl, wlock, runs, tbl_start, returned_total >>

\* a pipeline run (menu option 1 on main, run_scrape_job on the scheduler
\* thread) has got quotes from scrape_all_pages and calls insert_quotes
PipelineInsert(t, quotes) ==
    /\ pc[t] \in { "idle", "job_error" }
    /\ runs[t] < MaxRuns
    /\ runs' = [runs EXCEPT ![t] = @ + 1]
    /\ InsertQuotesEntry(t, quotes, FALSE)
    /\ UNCHANGED << other_vars, scrape_vars, quotes_tbl, history_tbl, wlock, tbl_start, returned_total >>

LockFreeFor(t) == IsNone(wlock) \/ wlock = Some(t)

\* the UNIQUE constraint on quotes.text, as the inserting connection sees
\* the table: the committed rows and the rows of its own transaction
UniqueViolation_Never(t, q) == FALSE

UniqueViolation(t, q) == q.text \in Texts(quotes_tbl) \cup Texts(txn[t])

\* one iteration of the for loop with the write lock available: the INSERT
\* adds the row and inserted is counted up, or sqlite3.IntegrityError is
\* caught and logged; either way the loop goes on
InsertRow_StopOnDuplicate(t) ==
    /\ pc[t] = "insert"
    /\ idx[t] <= Len(batch[t])
    /\ LockFreeFor(t)
    /\ wlock' = Some(t)
    /\ IF UniqueViolation(t, batch[t][idx[t]])
       THEN /\ idx' = [idx EXCEPT ![t] = Len(batch[t]) + 1]
            /\ UNCHANGED << txn, inserted >>
       ELSE /\ txn' = [txn EXCEPT ![t] = Append(@, Row(batch[t][idx[t]]))]
            /\ inserted' = [inserted EXCEPT ![t] = @ + 1]
            /\ idx' = [idx EXCEPT ![t] = @ + 1]
    /\ UNCHANGED << other_vars, pc, scrape_vars, quotes_tbl, history_tbl, batch, ret, runs,
                    committed, tbl_start, returned_total, tbl_before, prev >>

InsertRow_Replaces(t) ==
    /\ pc[t] = "insert"
    /\ idx[t] <= Len(batch[t])
    /\ LockFreeFor(t)
    /\ wlock' = Some(t)
    /\ LET q == batch[t][idx[t]]
           Other(r) == r.text # q.text
       IN /\ quotes_tbl' = SelectSeq(quotes_tbl, Other)
          /\ txn' = [txn EXCEPT ![t] = Append(SelectSeq(@, Other), Row(q))]
    /\ inserted' = [inserted EXCEPT ![t] = @ + 1]
    /\ idx' = [idx EXCEPT ![t] = @ + 1]
    /\ UNCHANGED << other_vars, pc, scrape_vars, history_tbl, batch, ret, runs,
                    committed, tbl_start, returned_total, tbl_before, prev >>

InsertRow(t) ==
    /\ pc[t] = "insert"
    /\ idx[t] <= Len(batch[t])
    /\ LockFreeFor(t)
    /\ wlock' = Some(t)
    /\ IF UniqueViolation(t, batch[t][idx[t]])
       THEN UNCHANGED << txn, inserted >>
       ELSE /\ txn' = [txn EXCEPT ![t] = Append(@, Row(batch[t][idx[t]]))]
            /\ inserted' = [inserted EXCEPT ![t] = @ + 1]
    /\ idx' = [idx EXCEPT ![t] = @ + 1]
    /\ UNCHANGED << other_vars, pc, scrape_vars, quotes_tbl, history_tbl, batch, ret, runs,
                    committed, tbl_start, returned_total, tbl_before, prev >>

\* the INSERT finds the write lock held by another connection until the
\* busy timeout runs out: sqlite3.OperationalError (database is locked),
\* which the loop's handler does not catch; the with block rolls back and
\* the exception leaves insert_quotes
InsertBusy(t) ==
    /\ pc[t] = "insert"
    /\ idx[t] <= Len(batch[t])
    /\ ~LockFreeFor(t)
    /\ txn' = [txn EXCEPT ![t] = << >>]
    /\ pc' = [pc EXCEPT ![t] = "insert_raised"]
    /\ UNCHANGED << other_vars, scrape_vars, quotes_tbl, history_tbl, wlock, batch, idx,
                    inserted, ret, runs, committed, tbl_start, returned_total, tbl_before, prev >>

\* an INSERT (the first or a later one) fails with a storage error that is
\* not sqlite3.IntegrityError (sqlite3.OperationalError: disk full, disk
\* I/O error): the loop's handler does not catch it, the with block's
\* __exit__ rolls the open transaction back, which gives the lock back, and
\* the exception leaves insert_quotes before its return statement
InsertStorageError_KeepsRows(t) ==
    /\ pc[t] = "insert"
    /\ idx[t] <= Len(batch[t])
    /\ LockFreeFor(t)
    /\ quotes_tbl' = quotes_tbl \o txn[t]
    /\ txn' = [txn EXCEPT ![t] = << >>]
    /\ wlock' = IF wlock = Some(t) THEN None ELSE wlock
    /\ pc' = [pc EXCEPT ![t] = "insert_raised"]
    /\ UNCHANGED << other_vars, scrape_vars, history_tbl, batch, idx, inserted, ret,
                    runs, committed, tbl_start, returned_total, tbl_before, prev >>

InsertStorageError(t) ==
    /\ pc[t] = "insert"
    /\ idx[t] <= Len(batch[t])
    /\ LockFreeFor(t)
    /\ txn' = [txn EXCEPT ![t] = << >>]
    /\ wlock' = IF wlock = Some(t) THEN None ELSE wlock
    /\ pc' = [pc EXCEPT ![t] = "insert_raised"]
    /\ UNCHANGED << other_vars, scrape_vars, quotes_tbl, history_tbl, batch, idx, inserted, ret,
                    runs, committed, tbl_start, returned_total, tbl_before, prev >>

\* the loop is over: conn.commit() publishes the transaction's rows and
\* gives the lock back; return inserted
CommitInsert_Rollback(t) ==
    /\ pc[t] = "insert"
    /\ idx[t] > Len(batch[t])
    /\ txn' = [txn EXCEPT ![t] = << >>]
    /\ wlock' = IF wlock = Some(t) THEN None ELSE wlock
    /\ ret' = [ret EXCEPT ![t] = Some(inserted[t])]
    /\ returned_total' = returned_total + inserted[t]
    /\ pc' = [pc EXCEPT ![t] = "inserted"]
    /\ UNCHANGED << other_vars, scrape_vars, quotes_tbl, history_tbl, batch, idx, inserted,
                    runs, committed, tbl_start, tbl_before, prev >>

CommitInsert(t) ==
    /\ pc[t] = "insert"
    /\ idx[t] > Len(batch[t])
    /\ quotes_tbl' = quotes_tbl \o txn[t]
    /\ committed' = [committed EXCEPT ![t] = txn[t]]
    /\ txn' = [txn EXCEPT ![t] = << >>]
    /\ wlock' = IF wlock = Some(t) THEN None ELSE wlock
    /\ ret' = [ret EXCEPT ![t] = Some(inserted[t])]
    /\ returned_total' = returned_total + inserted[t]
    /\ pc' = [pc EXCEPT ![t] = "inserted"]
    /\ UNCHANGED << other_vars, scrape_vars, history_tbl, batch, idx, inserted, runs,
                    tbl_start, tbl_before, prev >>

\* ------------------------------------- init_db, get_all_quotes, get_statistics
DbCall(op, out) ==
    [op |-> op, quotes_before |-> quotes_tbl, history_before |-> history_tbl, out |-> out]

\* the store is between two statements of the thread, no write of its own
\* under way
DbIdle(t) == pc[t] \in { "idle", "inserted", "insert_raised" }

InitDb_Recreates(t) ==
    /\ DbIdle(t)
    /\ db_call' = DbCall("init_db", << >>)
    /\ quotes_tbl' = << >>
    /\ history_tbl' = << >>
    /\ UNCHANGED << pc, scrape_vars, extract_vars, sched_vars, wlock, txn, batch, idx,
                    inserted, ret, runs, committed, tbl_start, returned_total,
                    tbl_before, prev >>

\* DatabaseManager(): init_db on a file that has both tables. CREATE TABLE
\* IF NOT EXISTS finds each table and does nothing; the commit has nothing
\* to write
InitDb(t) ==
    /\ DbIdle(t)
    /\ db_call' = DbCall("init_db", << >>)
    /\ UNCHANGED << pc, scrape_vars, store_vars, extract_vars, sched_vars >>

\* get_all_quotes(): SELECT * FROM quotes; the rows come ordered by
\* scraped_at, which the rows of the model do not carry, so the result is
\* the rows without their order
GetAllQuotes(t) ==
    /\ DbIdle(t)
    /\ db_call' = DbCall("get_all_quotes",
                         { quotes_tbl[i] : i \in 1 .. Len(quotes_tbl) })
    /\ UNCHANGED << pc, scrape_vars, store_vars, extract_vars, sched_vars >>

\* get_statistics(): two SELECT COUNT statements
GetStatistics(t) ==
    /\ DbIdle(t)
    /\ db_call' = DbCall("get_statistics",
                         [total_quotes |-> Len(quotes_tbl),
                          total_authors |->
                              Cardinality({ quotes_tbl[i].author : i \in 1 .. Len(quotes_tbl) }),
                          total_executions |-> Len(history_tbl)])
    /\ UNCHANGED << pc, scrape_vars, store_vars, extract_vars, sched_vars >>

\* ---------------------------------------------------------- log_execution
\* the run's local variables end with the run
RunLocalsGone(t) ==
    /\ batch' = [batch EXCEPT ![t] = << >>]
    /\ idx' = [idx EXCEPT ![t] = 1]
    /\ inserted' = [inserted EXCEPT ![t] = 0]
    /\ ret' = [ret EXCEPT ![t] = None]
    /\ committed' = [committed EXCEPT ![t] = << >>]
    /\ tbl_before' = [tbl_before EXCEPT ![t] = << >>]
    /\ prev' = [prev EXCEPT ![t] = None]

\* the pipeline's next statement: log_execution(len(quotes), inserted,
\* 'success', ...). Its INSERT and commit succeed: one ledger row more.
LogExecutionOk_SwapsCounts(t) ==
    /\ pc[t] = "inserted"
    /\ LockFreeFor(t)
    /\ history_tbl' = Append(history_tbl,
                             [quotes_scraped |-> Val(ret[t]),
                              quotes_inserted |-> Len(batch[t]),
                              status |-> "success"])
    /\ pc' = [pc EXCEPT ![t] = "idle"]
    /\ RunLocalsGone(t)
    /\ UNCHANGED << other_vars, scrape_vars, quotes_tbl, wlock, txn, runs, tbl_start, returned_total >>

LogExecutionOk(t) ==
    /\ pc[t] = "inserted"
    /\ LockFreeFor(t)
    /\ history_tbl' = Append(history_tbl,
                             [quotes_scraped |-> Len(batch[t]),
                              quotes_inserted |-> Val(ret[t]),
                              status |-> "success"])
    /\ pc' = [pc EXCEPT ![t] = "idle"]
    /\ RunLocalsGone(t)
    /\ UNCHANGED << other_vars, scrape_vars, quotes_tbl, wlock, txn, runs, tbl_start, returned_total >>

\* the write fails with a storage error (sqlite3.OperationalError: the
\* database stays locked past the busy timeout, the disk is full or cannot
\* be written): the with block rolls the ledger row back and, as
\* log_execution has no handler, the exception leaves log_execution
LogExecutionFail_Rollback(t) ==
    /\ pc[t] = "inserted"
    /\ pc' = [pc EXCEPT ![t] = "log_raised"]
    /\ quotes_tbl' = tbl_before[t]
    /\ UNCHANGED << other_vars, scrape_vars, history_tbl, wlock, txn, batch, idx, inserted,
                    ret, runs, committed, tbl_start, returned_total, tbl_before, prev >>

LogExecutionFail(t) ==
    /\ pc[t] = "inserted"
    /\ pc' = [pc EXCEPT ![t] = "log_raised"]
    /\ UNCHANGED << other_vars, scrape_vars, store_vars >>

\* ------------------------------------------------------ the runs' handlers
\* An exception out of the pipeline: on main it reaches main()'s
\* "except Exception" (log "Erro fatal", stop the scheduler, leave the menu
\* loop); on the scheduler thread run_scrape_job's handler logs it and the
\* job function returns.
Raised(t) == pc[t] \in { "insert_raised", "log_raised" }

ExceptionHandled(t) ==
    /\ Raised(t)
    /\ pc' = [pc EXCEPT ![t] = IF t = "main" THEN "fatal" ELSE "job_error"]
    /\ UNCHANGED << other_vars, scrape_vars, store_vars >>

\* ------------------------------------------------- extract_quotes_dynamic
\* a caller calls extract_quotes_dynamic(soup) on its document
ExtractCall ==
    /\ IsNone(ex_out)
    /\ ex_out' = Some(extract_quotes_dynamic(Soup(ex_doc)))
    /\ UNCHANGED << pc, scrape_vars, store_vars, sched_vars, db_call, ex_doc >>

\* ----------------------------------------------------------- TaskScheduler
\* The scheduler is APScheduler's BackgroundScheduler as TaskScheduler
\* configures it: a memory job store, one-shot 'date' jobs, the default
\* misfire grace time of one second, a thread pool whose worker the
\* thread "sched" is. Time is counted in minutes, the resolution of
\* schedule_scrape's input.

\* what the model remembers of a job add_job accepted
NewJob(dt) ==
    [id |-> JobId(dt), run_at |-> TickOf(dt),
     on_running |-> sched_state = "running",
     life |-> IF sched_state = "running" THEN "stored" ELSE "pending",
     invoked |-> 0, invoked_at |-> -1, invoked_stopped |-> FALSE,
     ended |-> "none"]

JobEntry(dt) == [job_id |-> JobId(dt), run_date |-> dt, status |-> "scheduled"]

CallRecord(op, date_str, time_str, result) ==
    [op |-> op, date |-> date_str, time |-> time_str, ret |-> result,
     jobs_before |-> scheduled_jobs, nreg_before |-> Len(job_log),
     was_running |-> sched_state = "running", busy |-> ~IsNone(cur_job)]

\* the job store refuses a second job with an id it holds
\* (ConflictingIdError)
IdConflict(store, id) == \E s \in store : job_log[s].id = id

\* schedule_scrape(date_str, time_str): a ValueError of the parsing or a
\* ConflictingIdError of add_job is caught and False returned; else the job
\* is in the job store (scheduler running) or among the pending jobs
\* (scheduler stopped), its entry is appended and True returned
schedule_scrape(date_str, time_str) ==
    /\ pc["main"] = "idle"
    /\ LET run_date == ParseRunDate(date_str, time_str)
           accepted == /\ ~IsNone(run_date)
                       /\ ~(sched_state = "running"
                            /\ IdConflict(jobstore, JobId(Val(run_date))))
       IN /\ accepted => Len(job_log) < MaxJobs
          /\ IF accepted
             THEN /\ job_log' = Append(job_log, NewJob(Val(run_date)))
                  /\ IF sched_state = "running"
                     THEN /\ jobstore' = jobstore \cup { Len(job_log) + 1 }
                          /\ UNCHANGED pending_jobs
                     ELSE /\ pending_jobs' = Append(pending_jobs, Len(job_log) + 1)
                          /\ UNCHANGED jobstore
                  /\ scheduled_jobs' = Append(scheduled_jobs, JobEntry(Val(run_date)))
             ELSE UNCHANGED << job_log, jobstore, pending_jobs, scheduled_jobs >>
          /\ last_call' = CallRecord("schedule_scrape", date_str, time_str,
                                     IF accepted THEN "True" ELSE "False")
    /\ UNCHANGED << pc, scrape_vars, store_vars, extract_vars, db_call, sched_state, now,
                    cur_job, pool_shut, listed, listed_val, stop_returned >>

\* list_scheduled(): return self.scheduled_jobs, the list object itself
REF_scheduled_jobs == "self.scheduled_jobs"

\* the sequence a reference to a list stands for
Deref(ref) == IF ref = REF_scheduled_jobs THEN scheduled_jobs ELSE << >>

list_scheduled ==
    /\ pc["main"] = "idle"
    /\ listed' = Some(REF_scheduled_jobs)
    /\ listed_val' = scheduled_jobs
    /\ last_call' = CallRecord("list_scheduled", << >>, << >>, "returned")
    /\ UNCHANGED << pc, scrape_vars, store_vars, extract_vars, db_call, sched_state, now,
                    scheduled_jobs, pending_jobs, jobstore, cur_job, pool_shut,
                    job_log, stop_returned >>

\* the caller of list_scheduled removes the last element of the list it
\* got (jobs.pop()): the list object is changed
CallerPops ==
    /\ pc["main"] = "idle"
    /\ ~IsNone(listed)
    /\ Deref(Val(listed)) # << >>
    /\ scheduled_jobs' = IF Val(listed) = REF_scheduled_jobs
                         THEN SubSeq(scheduled_jobs, 1, Len(scheduled_jobs) - 1)
                         ELSE scheduled_jobs
    /\ listed_val' = SubSeq(listed_val, 1, Len(listed_val) - 1)
    /\ last_call' = CallRecord("pop", << >>, << >>, "returned")
    /\ UNCHANGED << pc, scrape_vars, store_vars, extract_vars, db_call, sched_state, now,
                    pending_jobs, jobstore, cur_job, pool_shut, job_log, listed,
                    stop_returned >>

\* BaseScheduler.start adds the pending jobs to the job store one by one;
\* the first id the store already holds raises ConflictingIdError
RECURSIVE AddPending(_, _)
AddPending(pend, store) ==
    IF pend = << >> THEN [store |-> store, ok |-> TRUE]
    ELSE IF IdConflict(store, job_log[Head(pend)].id)
    THEN [store |-> store, ok |-> FALSE]
    ELSE AddPending(Tail(pend), store \cup { Head(pend) })

\* start(): scheduler.start() inside try/except. On a running scheduler
\* SchedulerAlreadyRunningError is caught and logged. On a stopped one the
\* pending jobs go to the job store and the state becomes running; if one
\* of them is refused, the exception is caught, the state stays stopped and
\* the pending list is kept.
TS_start_Restarts ==
    /\ pc["main"] = "idle"
    /\ sched_state' = "running"
    /\ jobstore' = { }
    /\ pending_jobs' = << >>
    /\ scheduled_jobs' = << >>
    /\ job_log' = [j \in 1 .. Len(job_log) |->
                     IF job_log[j].life \in { "stored", "pending" }
                     THEN [job_log[j] EXCEPT !.life = "dropped"] ELSE job_log[j]]
    /\ stop_returned' = FALSE
    /\ last_call' = CallRecord("start", << >>, << >>, "returned")
    /\ UNCHANGED << pc, scrape_vars, store_vars, extract_vars, db_call, now, cur_job,
                    pool_shut, listed, listed_val >>

TS_start ==
    /\ pc["main"] = "idle"
    /\ IF sched_state = "running"
       THEN UNCHANGED << sched_state, jobstore, pending_jobs, job_log, stop_returned >>
       ELSE LET added == AddPending(pending_jobs, jobstore)
            IN /\ jobstore' = added.store
               /\ job_log' = [j \in 1 .. Len(job_log) |->
                                IF j \in added.store /\ job_log[j].life = "pending"
                                THEN [job_log[j] EXCEPT !.life = "stored"]
                                ELSE job_log[j]]
               /\ sched_state' = IF added.ok THEN "running" ELSE "stopped"
               /\ pending_jobs' = IF added.ok THEN << >> ELSE pending_jobs
               /\ stop_returned' = (stop_returned /\ ~added.ok)
    /\ last_call' = CallRecord("start", << >>, << >>, "returned")
    /\ UNCHANGED << pc, scrape_vars, store_vars, extract_vars, db_call, now, scheduled_jobs,
                    cur_job, pool_shut, listed, listed_val >>

\* stop(): scheduler.shutdown() inside try/except. On a stopped scheduler
\* SchedulerNotRunningError is caught and logged. On a running one the
\* state becomes stopped and shutdown (wait=True) waits for the pool.
TS_stop ==
    /\ pc["main"] = "idle"
    /\ IF sched_state = "running"
       THEN /\ sched_state' = "stopped"
            /\ pc' = [pc EXCEPT !["main"] = "stopping"]
            /\ UNCHANGED stop_returned
       ELSE /\ stop_returned' = TRUE
            /\ UNCHANGED << sched_state, pc >>
    /\ last_call' = CallRecord("stop", << >>, << >>, "returned")
    /\ UNCHANGED << scrape_vars, store_vars, extract_vars, db_call, now, scheduled_jobs,
                    pending_jobs, jobstore, cur_job, pool_shut, job_log, listed,
                    listed_val >>

\* shutdown goes on when the worker is idle: the pool is shut down, the
\* memory job store drops its jobs, the scheduler thread is joined and
\* stop() returns
StopReturn_Interrupts ==
    /\ pc["main"] = "stopping"
    /\ pc' = [pc EXCEPT !["main"] = "idle", !["sched"] = "idle"]
    /\ cur_job' = None
    /\ pool_shut' = TRUE
    /\ jobstore' = { }
    /\ job_log' = [j \in 1 .. Len(job_log) |->
                     IF j \in jobstore THEN [job_log[j] EXCEPT !.life = "dropped"]
                     ELSE job_log[j]]
    /\ stop_returned' = TRUE
    /\ UNCHANGED << scrape_vars, store_vars, extract_vars, db_call, sched_state, now,
                    scheduled_jobs, pending_jobs, last_call, listed, listed_val >>

StopReturn ==
    /\ pc["main"] = "stopping"
    /\ IsNone(cur_job)
    /\ pc' = [pc EXCEPT !["main"] = "idle"]
    /\ pool_shut' = TRUE
    /\ jobstore' = { }
    /\ job_log' = [j \in 1 .. Len(job_log) |->
                     IF j \in jobstore THEN [job_log[j] EXCEPT !.life = "dropped"]
                     ELSE job_log[j]]
    /\ stop_returned' = TRUE
    /\ UNCHANGED << scrape_vars, store_vars, extract_vars, db_call, sched_state, now,
                    scheduled_jobs, pending_jobs, cur_job, last_call, listed,
                    listed_val >>

\* a job of the store is due
Due(j) == j \in jobstore /\ job_log[j].run_at <= now

\* a minute passes. A running scheduler wakes up at the run time of its
\* next job, so no minute passes while it has a due job to process.
Tick ==
    /\ now < MaxTime
    /\ ~(sched_state = "running" /\ \E j \in jobstore : Due(j))
    /\ now' = now + 1
    /\ UNCHANGED << pc, scrape_vars, store_vars, extract_vars, db_call, sched_state,
                    scheduled_jobs, pending_jobs, jobstore, cur_job, pool_shut,
                    job_log, last_call, listed, listed_val, stop_returned >>

\* the run time was missed by more than the misfire grace time (one
\* second): a minute or more
Misfired(j) == now - job_log[j].run_at >= 1

\* the scheduler thread processes a due job: the one-shot job leaves the
\* job store and is submitted to the pool. The worker runs run_scrape_job
\* unless the run time was missed by more than the grace time; then the
\* run is skipped with a warning. A pool that has been shut down may
\* refuse the submission: the error is logged, nothing runs.
ProcessDueJob(j, refused) ==
    /\ sched_state = "running"
    /\ Due(j)
    /\ IsNone(cur_job)
    /\ pc["sched"] = "idle"
    /\ refused => pool_shut
    /\ jobstore' = jobstore \ { j }
    /\ IF refused
       THEN /\ job_log' = [job_log EXCEPT ![j].life = "lost"]
            /\ UNCHANGED << pc, cur_job >>
       ELSE IF Misfired(j)
       THEN /\ job_log' = [job_log EXCEPT ![j].life = "missed"]
            /\ UNCHANGED << pc, cur_job >>
       ELSE /\ job_log' = [job_log EXCEPT ![j].life = "running",
                                          ![j].invoked = @ + 1,
                                          ![j].invoked_at = now,
                                          ![j].invoked_stopped = stop_returned]
            /\ cur_job' = Some(j)
            /\ pc' = [pc EXCEPT !["sched"] = "job"]
    /\ UNCHANGED << scrape_vars, store_vars, extract_vars, db_call, sched_state, now,
                    scheduled_jobs, pending_jobs, pool_shut, last_call, listed,
                    listed_val, stop_returned >>

\* run_scrape_job: QuotesScraper(), DatabaseManager(), then
\* scrape_all_pages returns the quotes it gathered
JobScrape(quotes) ==
    /\ pc["sched"] = "job"
    /\ all_quotes' = [all_quotes EXCEPT !["sched"] = quotes]
    /\ pc' = [pc EXCEPT !["sched"] = "job_scraped"]
    /\ UNCHANGED << store_vars, other_vars, MAX_PAGES, max_pages, cap_arg, page_num, attempt,
                    soup, visited, fetched, get_log, resp_log, slept >>

\* inserted = db.insert_quotes(quotes)
JobInsert ==
    /\ pc["sched"] = "job_scraped"
    /\ runs' = [runs EXCEPT !["sched"] = @ + 1]
    /\ InsertQuotesEntry("sched", all_quotes["sched"], FALSE)
    /\ UNCHANGED << other_vars, scrape_vars, quotes_tbl, history_tbl, wlock, tbl_start,
                    returned_total >>

\* run_scrape_job returns to the pool, after its last log line or after
\* its handler's; its local variables are gone
JobReturn ==
    /\ ~IsNone(cur_job)
    /\ pc["sched"] \in { "idle", "job_error" }
    /\ job_log' = [job_log EXCEPT
                     ![Val(cur_job)].life = "done",
                     ![Val(cur_job)].ended =
                         IF pc["sched"] = "idle" THEN "ok" ELSE "error"]
    /\ cur_job' = None
    /\ pc' = [pc EXCEPT !["sched"] = "idle"]
    /\ all_quotes' = [all_quotes EXCEPT !["sched"] = << >>]
    /\ RunLocalsGone("sched")
    /\ UNCHANGED << extract_vars, db_call, sched_state, now, scheduled_jobs, pending_jobs,
                    jobstore, pool_shut, last_call, listed, listed_val, stop_returned,
                    MAX_PAGES, max_pages, cap_arg, page_num, attempt, soup, visited, fetched,
                    get_log, resp_log, slept, quotes_tbl, history_tbl, wlock, txn, runs, tbl_start,
                    returned_total >>

\* ---------------------------------------------------------- specifications
ThreadFn(v) == [t \in Threads |-> v]

InitScrape ==
    /\ MAX_PAGES = DEFAULT_MAX_PAGES
    /\ max_pages = ThreadFn(0)
    /\ cap_arg = ThreadFn(None)
    /\ page_num = ThreadFn(1)
    /\ all_quotes = ThreadFn(<< >>)
    /\ attempt = ThreadFn(0)
    /\ soup = ThreadFn(None)
    /\ visited = ThreadFn(<< >>)
    /\ fetched = ThreadFn(<< >>)
    /\ get_log = ThreadFn(<< >>)
    /\ resp_log = ThreadFn(<< >>)
    /\ slept = ThreadFn(<< >>)

InitStore ==
    /\ quotes_tbl \in StartTables
    /\ history_tbl = << >>
    /\ wlock = None
    /\ txn = ThreadFn(<< >>)
    /\ batch = ThreadFn(<< >>)
    /\ idx = ThreadFn(1)
    /\ inserted = ThreadFn(0)
    /\ ret = ThreadFn(None)
    /\ runs = ThreadFn(0)
    /\ committed = ThreadFn(<< >>)
    /\ tbl_start = quotes_tbl
    /\ returned_total = 0
    /\ tbl_before = ThreadFn(<< >>)
    /\ prev = ThreadFn(None)
    /\ db_call = DbCall("none", << >>)

\* TaskScheduler.__init__: a scheduler that has not been started, no jobs
InitSched ==
    /\ sched_state = "stopped"
    /\ now = 0
    /\ scheduled_jobs = << >>
    /\ pending_jobs = << >>
    /\ jobstore = { }
    /\ cur_job = None
    /\ pool_shut = FALSE
    /\ job_log = << >>
    /\ last_call = [op |-> "none", date |-> << >>, time |-> << >>, ret |-> "returned",
                    jobs_before |-> << >>, nreg_before |-> 0, was_running |-> FALSE,
                    busy |-> FALSE]
    /\ listed = None
    /\ listed_val = << >>
    /\ stop_returned = FALSE

\* no extractor call of a library caller is under way
InitExtractIdle ==
    /\ ex_doc = Elem("[document]", << >>, << >>, << >>)
    /\ ex_out = None

Init ==
    /\ pc = ThreadFn("idle")
    /\ InitScrape
    /\ InitStore
    /\ InitExtractIdle
    /\ InitSched

\* a caller holds any of the documents and is about to call the extractor
InitExtract ==
    /\ pc = ThreadFn("idle")
    /\ InitScrape
    /\ InitStore
    /\ ex_doc \in ExtractDocs
    /\ ex_out = None
    /\ InitSched

\* one scraper, driven by the foreground thread, against any site
NextScrape ==
    \/ \E arg \in MaxPagesArgs : CallScrapeAllPages("main", arg)
    \/ WhileTest("main")
    \/ \E doc \in SiteDocs : FetchAttemptOk("main", Response("response", 200), doc)
    \/ FetchAttemptFail("main", Response("Timeout", 0))
    \/ FetchExhausted("main")
    \/ LoopBodyPage("main")
    \/ LoopBodyNone("main")
    \/ \E n \in -1 .. MaxPagesBound : SetPageLimit(n)

SpecScrape == Init /\ [][NextScrape]_vars

\* fetch_page called again and again, the site answering each request with
\* any status or not at all
NextFetch ==
    \/ FetchPageCall("main")
    \/ \E resp \in Responses, doc \in SiteDocs : FetchAttemptOk("main", resp, doc)
    \/ \E resp \in Responses : FetchAttemptFail("main", resp)
    \/ FetchExhausted("main")

SpecFetch == Init /\ [][NextFetch]_vars

\* a run of scrape_all_pages on the scheduler thread, as run_scrape_job
\* starts it or with an explicit cap, while the foreground menu's option 10
\* changes ScraperConfig.MAX_PAGES at any moment
NextCap ==
    \/ \E arg \in MaxPagesArgs : CallScrapeAllPages("sched", arg)
    \/ WhileTest("sched")
    \/ FetchAttemptOk("sched", Response("response", 200),
                      [containers |-> << C_q1 >>, next |-> TRUE])
    \/ FetchAttemptFail("sched", Response("Timeout", 0))
    \/ FetchExhausted("sched")
    \/ LoopBodyPage("sched")
    \/ LoopBodyNone("sched")
    \/ \E n \in -1 .. MaxPagesBound : SetPageLimit(n)

SpecCap == Init /\ [][NextCap]_vars

\* one caller using the store directly, call after call
NextApi ==
    \/ \E quotes \in ApiBatches : ApiInsertQuotes("main", quotes)
    \/ ApiInsertQuotesAgain("main")
    \/ InsertRow("main")
    \/ InsertStorageError("main")
    \/ CommitInsert("main")

SpecApi == Init /\ [][NextApi]_vars

\* the foreground thread and the scheduler thread running pipelines on the
\* same database file
NextStore ==
    \E t \in Threads :
        \/ \E quotes \in RunBatches : PipelineInsert(t, quotes)
        \/ InsertRow(t)
        \/ InsertBusy(t)
        \/ InsertStorageError(t)
        \/ CommitInsert(t)
        \/ LogExecutionOk(t)
        \/ LogExecutionFail(t)
        \/ ExceptionHandled(t)

Spec == Init /\ [][NextStore]_vars

\* a caller of the DatabaseManager: insert_quotes followed or not by
\* log_execution, new DatabaseManager objects on the same file, and the two
\* reading methods, in any order
NextDb ==
    \/ \E quotes \in RunBatches : ApiInsertQuotes("main", quotes)
    \/ InsertRow("main")
    \/ InsertStorageError("main")
    \/ CommitInsert("main")
    \/ Len(history_tbl) < MaxLedgerRows /\ LogExecutionOk("main")
    \/ InitDb("main")
    \/ GetAllQuotes("main")
    \/ GetStatistics("main")

SpecDb == Init /\ [][NextDb]_vars

\* the extractor applied to every document
NextExtract == ExtractCall

SpecExtract == InitExtract /\ [][NextExtract]_vars

\* a caller holds a one-container document with any text or author text
InitClean ==
    /\ pc = ThreadFn("idle")
    /\ InitScrape
    /\ InitStore
    /\ ex_doc \in CleanDocs
    /\ ex_out = None
    /\ InitSched

SpecClean == InitClean /\ [][NextExtract]_vars

\* a caller using the TaskScheduler's interface, call after call, with
\* well-formed and malformed dates and times; no job becomes due
NextSchedApi ==
    \/ \E in \in ScheduleInputs : schedule_scrape(in[1], in[2])
    \/ list_scheduled
    \/ CallerPops
    \/ TS_start
    \/ TS_stop
    \/ StopReturn

SpecSchedApi == Init /\ [][NextSchedApi]_vars

\* the inputs schedule_scrape accepts
AcceptedInputs ==
    { in \in ScheduleInputs : ~IsNone(ParseRunDate(in[1], in[2])) }

\* the database file does not exist when the process starts
InitSchedRuns == Init /\ quotes_tbl = << >>

\* the foreground thread scheduling jobs, starting and stopping the
\* scheduler while the clock runs and the scheduler's worker runs the due
\* jobs
NextSched ==
    \/ \E in \in AcceptedInputs : schedule_scrape(in[1], in[2])
    \/ TS_start
    \/ TS_stop
    \/ StopReturn
    \/ Tick
    \/ \E j \in jobstore, refused \in BOOLEAN : ProcessDueJob(j, refused)
    \/ \E quotes \in JobBatches : JobScrape(quotes)
    \/ JobInsert
    \/ InsertRow("sched")
    \/ InsertStorageError("sched")
    \/ CommitInsert("sched")
    \/ LogExecutionOk("sched")
    \/ LogExecutionFail("sched")
    \/ ExceptionHandled("sched")
    \/ JobReturn

SpecSched == InitSchedRuns /\ [][NextSched]_vars

\* ============================================================== properties
\* helpers over the record of one scrape_all_pages run
Upto(n) == [i \in 1 .. n |-> i]

RECURSIVE ExtractAll(_)
ExtractAll(fs) ==
    IF fs = << >> THEN << >>
    ELSE (IF IsNone(Head(fs)) THEN << >> ELSE extract_quotes_dynamic(Val(Head(fs))))
         \o ExtractAll(Tail(fs))

AllFetched(fs) == \A i \in 1 .. Len(fs) : ~IsNone(fs[i])

\* page k is the first page without li.next
FirstWithoutNext(fs, k) ==
    /\ k \in 1 .. Len(fs)
    /\ \A i \in 1 .. k : ~IsNone(fs[i])
    /\ ~HasNext(Val(fs[k]))
    /\ \A i \in 1 .. (k - 1) : HasNext(Val(fs[i]))

\* ---- C1 ----
\* C1: when every fetch succeeds and page k is the first page without the
\* li.next element, a run with max_pages >= k fetches exactly pages 1..k,
\* never page k+1, and returns the records of those k pages.
C1_StopsAtFirstPageWithoutNext ==
    \A t \in Threads : \A k \in 1 .. Len(fetched[t]) :
        (FirstWithoutNext(fetched[t], k) /\ AllFetched(fetched[t])
            /\ max_pages[t] >= k)
        => /\ Len(visited[t]) <= k
           /\ pc[t] = "scraped" =>
                /\ visited[t] = Upto(k)
                /\ all_quotes[t] = ExtractAll(SubSeq(fetched[t], 1, k))

\* ---- C2 ----
\* C2: the pages requested are always 1, 2, 3, ... in that order and never
\* more than max_pages of them; when every fetch succeeded and every page
\* carried li.next, the finished run has requested exactly 1..max_pages.
AllFetchedWithNext(fs) ==
    \A i \in 1 .. Len(fs) : ~IsNone(fs[i]) /\ HasNext(Val(fs[i]))

C2_PageCap ==
    \A t \in Threads :
        max_pages[t] >= 1 =>
            /\ visited[t] = Upto(Len(visited[t]))
            /\ Len(visited[t]) <= max_pages[t]
            /\ (pc[t] = "scraped" /\ AllFetchedWithNext(fetched[t]))
                    => visited[t] = Upto(max_pages[t])

C2_Witness ==
    /\ pc["main"] = "scraped"
    /\ max_pages["main"] = 2
    /\ AllFetchedWithNext(fetched["main"])
    /\ visited["main"] = << 1, 2 >>

\* ---- C3 ----
\* C3: a fetch_page call that returned None for page n is the last one of the
\* run: the run ends with exactly the records of pages 1..n-1, and page n was
\* requested once.
C3_FetchFailureEndsPagination ==
    \A t \in Threads : \A n \in 1 .. Len(fetched[t]) :
        IsNone(fetched[t][n]) =>
            /\ n = Len(fetched[t])
            /\ visited[t] = Upto(n)
            /\ pc[t] \in { "body", "scraped" }
            /\ all_quotes[t] = ExtractAll(SubSeq(fetched[t], 1, n - 1))

C3_Witness ==
    /\ pc["main"] = "scraped"
    /\ Len(fetched["main"]) = 2
    /\ IsNone(fetched["main"][2])
    /\ all_quotes["main"] # << >>

\* ---- C4 ----
\* C4: fetch_page stops at the first successful request or after
\* RETRY_ATTEMPTS failed ones: while it runs every request so far failed and
\* fewer than RETRY_ATTEMPTS were made after a failure is handled; it returns
\* a document exactly when its last request, the j-th with
\* j <= RETRY_ATTEMPTS, is the only successful one, and None exactly after
\* RETRY_ATTEMPTS failed requests.
AllFail(log) == \A i \in 1 .. Len(log) : log[i] = "fail"

C4_RetryBudget ==
    \A t \in Threads :
        /\ Len(get_log[t]) <= RETRY_ATTEMPTS
        /\ pc[t] = "fetch" => AllFail(get_log[t])
        /\ (pc[t] = "body" /\ ~IsNone(soup[t])) =>
                /\ Len(get_log[t]) >= 1
                /\ get_log[t][Len(get_log[t])] = "ok"
                /\ AllFail(SubSeq(get_log[t], 1, Len(get_log[t]) - 1))
        /\ (pc[t] = "body" /\ IsNone(soup[t])) =>
                /\ Len(get_log[t]) = RETRY_ATTEMPTS
                /\ AllFail(get_log[t])

C4_Witness ==
    /\ pc["main"] = "body"
    /\ get_log["main"] = << "fail", "fail", "ok" >>

\* ---- C5 ----
\* C5: a call with a non-empty batch none of whose texts is stored returns a
\* count above 0; the same batch inserted again right after returns 0 and
\* leaves the stored rows as they were.
BatchIsNew(b, tbl) == b # << >> /\ Texts(b) \cap Texts(tbl) = { }

C5_InsertIdempotent ==
    \A t \in Threads :
        pc[t] = "inserted" =>
            /\ BatchIsNew(batch[t], tbl_before[t]) => Val(ret[t]) > 0
            /\ (~IsNone(prev[t]) /\ Val(prev[t]).fresh) =>
                    /\ Val(prev[t]).ret > 0
                    /\ Val(ret[t]) = 0
                    /\ quotes_tbl = tbl_before[t]

C5_Witness ==
    /\ pc["main"] = "inserted"
    /\ ~IsNone(prev["main"])
    /\ Val(prev["main"]).fresh
    /\ Val(prev["main"]).ret = 2
    /\ Val(ret["main"]) = 0
    /\ Len(quotes_tbl) >= 2

\* ---- C6 ----
\* C6: a returned insert_quotes call has gone through its whole batch; the
\* count it returns is the number of distinct texts of the batch that were
\* not stored when it started, which is also the number of rows the table
\* gained; every text of the batch is stored afterwards, whatever
\* duplicates came before it in the batch.
C6_CountsNewTexts ==
    \A t \in Threads :
        pc[t] = "inserted" =>
            /\ idx[t] = Len(batch[t]) + 1
            /\ Val(ret[t]) = Cardinality(Texts(batch[t]) \ Texts(tbl_before[t]))
            /\ Len(quotes_tbl) = Len(tbl_before[t]) + Val(ret[t])
            /\ Texts(batch[t]) \subseteq Texts(quotes_tbl)
            /\ SubSeq(quotes_tbl, 1, Len(tbl_before[t])) = tbl_before[t]

C6_Witness ==
    /\ pc["main"] = "inserted"
    /\ Len(batch["main"]) = 3
    /\ batch["main"][1].text \in Texts(tbl_before["main"])
    /\ batch["main"][2].text = batch["main"][3].text
    /\ batch["main"][2].text \notin Texts(tbl_before["main"])
    /\ Val(ret["main"]) = 1

\* ---- C7 ----
\* C7: no two rows of table quotes have the same text, neither among the
\* committed rows nor in the table as any open transaction sees it.
NoDuplicateText(rows) ==
    \A i, j \in 1 .. Len(rows) : rows[i].text = rows[j].text => i = j

C7_TextUnique ==
    /\ NoDuplicateText(quotes_tbl)
    /\ \A t \in Threads : NoDuplicateText(quotes_tbl \o txn[t])

C7_Witness ==
    /\ pc["main"] = "inserted"
    /\ pc["sched"] = "inserted"
    /\ batch["main"] # << >>
    /\ batch["main"] = batch["sched"]
    /\ Val(ret["main"]) + Val(ret["sched"]) = 1
    /\ Cardinality({ i \in 1 .. Len(quotes_tbl) :
                        quotes_tbl[i].text = batch["main"][1].text }) = 1

\* ---- C8 ----
\* C8: concurrent insert_quotes calls of the two threads never raise, and
\* the counts the calls return add up to the rows added to the table.
ReturnedCountsMatchRows ==
    Len(quotes_tbl) = Len(tbl_start) + returned_total

C8_ConcurrentInsertsComplete ==
    /\ \A t \in Threads : pc[t] # "insert_raised"
    /\ ReturnedCountsMatchRows

\* ---- C9 ----
\* C9: a failed ledger write does not leave log_execution as an exception,
\* so no pipeline run is ended by it.
C9_LedgerFailureNotPropagated ==
    \A t \in Threads : pc[t] # "log_raised"

\* ---- C10 ----
\* C10: when log_execution has failed in a run, the rows that run's
\* insert_quotes call committed are in the table, then and after the
\* exception is handled.
RowSet(rows) == { rows[i] : i \in 1 .. Len(rows) }

C10_LedgerFailureKeepsInserts ==
    \A t \in Threads :
        pc[t] \in { "log_raised", "fatal", "job_error" } =>
            RowSet(committed[t]) \subseteq RowSet(quotes_tbl)

C10_Witness ==
    /\ pc["sched"] = "job_error"
    /\ pc["main"] = "fatal"
    /\ committed["main"] # << >>
    /\ committed["sched"] # << >>

\* C11: when a storage error that is not a duplicate-key conflict hits any
\* record of an insert_quotes call, the call raises instead of returning a
\* count and the store is exactly as it was before the call: no row of the
\* batch, the rows processed before the error included, is stored
C11_StorageErrorRollsBack ==
    pc["main"] = "insert_raised" =>
        /\ IsNone(ret["main"])
        /\ quotes_tbl = tbl_before["main"]
        /\ txn["main"] = << >>
        /\ IsNone(wlock)

\* the error came after a record of the batch had been inserted
C11_Witness ==
    /\ pc["main"] = "insert_raised"
    /\ inserted["main"] >= 1
    /\ idx["main"] >= 2
    /\ idx["main"] <= Len(batch["main"])

\* a pipeline run is in progress from its insert_quotes call until its
\* ledger write has returned or its exception has reached the handler
RunInProgress(t) == pc[t] \in { "insert", "inserted", "insert_raised", "log_raised" }

FinishedRuns(t) == runs[t] - (IF RunInProgress(t) THEN 1 ELSE 0)

\* C18: every pipeline run, manual or scheduled, appends exactly one row to
\* execution_history whether it succeeds or fails, so the number of ledger
\* rows always equals the number of finished pipeline runs
C18_OneLedgerRowPerRun ==
    Len(history_tbl) = FinishedRuns("main") + FinishedRuns("sched")

\* the containers of the document and the ones with both sub-elements
HasTextAndAuthor(c) == select(c, CLS_text) # << >> /\ select(c, CLS_author) # << >>

DocQuoteElems == select(ex_doc, CLS_quote)

CompleteQuoteElems == SelectSeq(DocQuoteElems, HasTextAndAuthor)

\* C19: extract_quotes_dynamic returns exactly one record per container
\* that has both a text and an author sub-element, in the document order of
\* those containers; a container missing either yields no record and does
\* not stop later containers; an empty document yields an empty list
C19_OneRecordPerCompleteContainer ==
    ~IsNone(ex_out) =>
        /\ Len(Val(ex_out)) = Len(CompleteQuoteElems)
        /\ \A i \in 1 .. Len(CompleteQuoteElems) :
              /\ Val(ex_out)[i].text =
                    CleanText(get_text(Head(select(CompleteQuoteElems[i], CLS_text))))
              /\ Val(ex_out)[i].author =
                    CleanAuthor(get_text(Head(select(CompleteQuoteElems[i], CLS_author))))
        /\ (ex_doc.kids = << >> => Val(ex_out) = << >>)

\* a container without author comes first, a complete one after it is
\* extracted
C19_Witness ==
    /\ ~IsNone(ex_out)
    /\ Len(DocQuoteElems) = 2
    /\ ~HasTextAndAuthor(DocQuoteElems[1])
    /\ HasTextAndAuthor(DocQuoteElems[2])
    /\ Len(Val(ex_out)) = 1

\* the elements that mark one tag each: class "tag"
HasClassTag(e) == e.cls = CLS_tag

TagElems(c) == SelectSeq(Descendants(c.kids), HasClassTag)

\* C20: the tags of a record are exactly the texts of its container's tag
\* sub-elements, one entry per tag in document order (the single tag t
\* gives << t >>), and the empty sequence when the container has none
C20_TagsAreTheTagTexts ==
    ~IsNone(ex_out) =>
        \A i \in 1 .. Len(CompleteQuoteElems) :
            i <= Len(Val(ex_out)) =>
                Val(ex_out)[i].tags = MapElemText(TagElems(CompleteQuoteElems[i]))

\* ------------------------------------------------- scheduler properties
JobNums == 1 .. Len(job_log)

\* C12: once a registered job's due time has elapsed and its pipeline run
\* has finished, the job's entry in the list list_scheduled returns has
\* status 'completed' (run without error) or 'failed' (run raised), and no
\* longer 'scheduled'
C12_FinishedJobLeavesScheduled ==
    \A j \in JobNums :
        (job_log[j].ended # "none" /\ j <= Len(scheduled_jobs)) =>
            scheduled_jobs[j].status =
                (IF job_log[j].ended = "ok" THEN "completed" ELSE "failed")

\* the scheduler thread is inside or past run_scrape_job's insert_quotes call
InsertCalled(t) == pc[t] \in { "insert", "inserted", "insert_raised", "log_raised" }

\* C13: a job registered on a running scheduler is invoked exactly once,
\* not before its run time: never twice, never early, and once the
\* scheduler has processed it at its due time it has been invoked; inside
\* the invocation insert_quotes gets what scrape_all_pages returned and
\* log_execution comes after insert_quotes
C13_OneShotDispatch ==
    /\ \A j \in JobNums :
          job_log[j].on_running =>
              /\ job_log[j].invoked <= 1
              /\ (job_log[j].invoked >= 1 => job_log[j].invoked_at >= job_log[j].run_at)
              /\ (job_log[j].life \in { "done", "missed", "lost" } =>
                      job_log[j].invoked = 1)
    /\ (InsertCalled("sched") =>
            ~IsNone(cur_job) /\ batch["sched"] = all_quotes["sched"])
    /\ Len(history_tbl) <= runs["sched"]

\* a date of the form DD/MM/YYYY and a time of the form HH:MM, with the
\* day, month, hour and minute in their ranges
TwoDigits(str, i) == str[i] \in DigitChars /\ str[i + 1] \in DigitChars

NumAt(str, i, n) == ToInt(SubSeq(str, i, i + n - 1))

MonthLengths == << 31, 28, 31, 30, 31, 30, 31, 31, 30, 31, 30, 31 >>

WellFormedDate(str) ==
    /\ Len(str) = 10
    /\ str[3] = "/" /\ str[6] = "/"
    /\ TwoDigits(str, 1) /\ TwoDigits(str, 4) /\ TwoDigits(str, 7) /\ TwoDigits(str, 9)
    /\ NumAt(str, 7, 4) >= 1
    /\ NumAt(str, 4, 2) \in 1 .. 12
    /\ NumAt(str, 1, 2) >= 1
    /\ NumAt(str, 1, 2) <= MonthLengths[NumAt(str, 4, 2)]
                           + (IF NumAt(str, 4, 2) = 2 /\ IsLeap(NumAt(str, 7, 4))
                              THEN 1 ELSE 0)

WellFormedTime(str) ==
    /\ Len(str) = 5
    /\ str[3] = ":"
    /\ TwoDigits(str, 1) /\ TwoDigits(str, 4)
    /\ NumAt(str, 1, 2) <= 23
    /\ NumAt(str, 4, 2) <= 59

Malformed(date_str, time_str) == ~(WellFormedDate(date_str) /\ WellFormedTime(time_str))

\* C14: schedule_scrape with a malformed date or time returns False
\* without raising, registers no job with the scheduler and leaves the job
\* list as it was
C14_MalformedInputRejected ==
    (last_call.op = "schedule_scrape" /\ Malformed(last_call.date, last_call.time)) =>
        /\ last_call.ret = "False"
        /\ pc["main"] = "idle"
        /\ scheduled_jobs = last_call.jobs_before
        /\ Len(job_log) = last_call.nreg_before

\* a malformed input was refused by a scheduler that holds a job
C14_Witness ==
    /\ last_call.op = "schedule_scrape"
    /\ Malformed(last_call.date, last_call.time)
    /\ last_call.ret = "False"
    /\ scheduled_jobs # << >>
    /\ jobstore # { }

\* C15: start() on a started scheduler and stop() on a stopped or never
\* started one return without raising and leave the running state and the
\* job list unchanged
C15_StartStopIdempotent ==
    /\ (last_call.op = "start" /\ last_call.was_running) =>
          /\ last_call.ret = "returned"
          /\ pc["main"] = "idle"
          /\ sched_state = "running"
          /\ scheduled_jobs = last_call.jobs_before
          /\ Len(job_log) = last_call.nreg_before
          /\ \A j \in JobNums : job_log[j].life = "stored" <=> j \in jobstore
    /\ (last_call.op = "stop" /\ ~last_call.was_running) =>
          /\ last_call.ret = "returned"
          /\ pc["main"] = "idle"
          /\ sched_state = "stopped"
          /\ scheduled_jobs = last_call.jobs_before
          /\ Len(job_log) = last_call.nreg_before

\* start() was called on a started scheduler that holds a job
C15_Witness ==
    /\ last_call.op = "start"
    /\ last_call.was_running
    /\ scheduled_jobs # << >>
    /\ jobstore # { }

\* the jobs whose run_scrape_job has returned after its ledger write
EndedOk == { j \in JobNums : job_log[j].ended = "ok" }

\* C16: after stop() has returned no job is dispatched; a run that had
\* started when stop() was called is not cut short: it goes on to its
\* ledger write or to its handler
C16_StopLetsRunsFinish ==
    /\ \A j \in JobNums : ~job_log[j].invoked_stopped
    /\ stop_returned => sched_state = "stopped"
    /\ \A j \in JobNums :
          (job_log[j].invoked >= 1 /\ cur_job # Some(j)) => job_log[j].ended # "none"
    /\ Cardinality(EndedOk) <= Len(history_tbl)

\* stop() was called while a job was running and has returned: that run
\* has written its rows, and a job due later was never dispatched
C16_Witness ==
    /\ stop_returned
    /\ last_call.op = "stop"
    /\ last_call.busy
    /\ EndedOk # { }
    /\ quotes_tbl # << >>
    /\ history_tbl # << >>
    /\ \E k \in JobNums :
          /\ job_log[k].life = "dropped"
          /\ job_log[k].run_at > now
          /\ job_log[k].invoked = 0

\* C17: the sequence list_scheduled returned does not change when
\* schedule_scrape is called afterwards, and changing it does not change
\* the scheduler's own jobs: one entry per accepted job, in order
C17_ListIsSnapshot ==
    /\ (~IsNone(listed) => Deref(Val(listed)) = listed_val)
    /\ Len(scheduled_jobs) = Len(job_log)
    /\ \A j \in JobNums :
          j <= Len(scheduled_jobs) => scheduled_jobs[j].job_id = job_log[j].id

\* ------------------------------------------------------------ C21 .. C30

\* the text of the author element, resp. the text element, of the document's
\* first container
AuthorRaw == get_text(Head(select(Head(DocQuoteElems), CLS_author)))

TextRaw == get_text(Head(select(Head(DocQuoteElems), CLS_text)))

ByPrefixes == { << "b", "y", WS >>, << "B", "y", WS >>, << "B", "Y", WS >> }

HasByPrefix(s) == \E p \in ByPrefixes : IsPrefix(p, s)

\* the stripped text without its leading prefix, when it has one
WithoutLeadingBy(s) == IF HasByPrefix(s) THEN SubSeq(s, 4, Len(s)) ELSE s

\* C21: the extracted author is the whitespace-stripped author text with a
\* leading "by " (in any of the cases "by ", "By ", "BY ") removed when
\* present, and the stripped text unchanged otherwise
C21_AuthorCleaningRemovesLeadingBy ==
    ~IsNone(ex_out) =>
        /\ Len(Val(ex_out)) = 1
        /\ Val(ex_out)[1].author = WithoutLeadingBy(GetTextStrip(AuthorRaw))

\* C23: every record extract_quotes_dynamic returns has a non-empty text and
\* a non-empty author
C23_RecordsHaveTextAndAuthor ==
    ~IsNone(ex_out) =>
        \A i \in 1 .. Len(Val(ex_out)) :
            Val(ex_out)[i].text # << >> /\ Val(ex_out)[i].author # << >>
\* fetch_page has returned to its caller
FetchReturned(t) == pc[t] = "body" /\ fetched[t] # << >>

Is2xx(resp) == resp.kind = "response" /\ 200 <= resp.code /\ resp.code <= 299

NotOk(resp) == ~Is2xx(resp)

\* C22: a fetch attempt whose response status is outside 200..299 is a
\* failed attempt: its body is never parsed and returned as a document, and
\* it uses up one of the RETRY_ATTEMPTS attempts as a timeout or a
\* connection error does
C22_Non2xxIsFailedAttempt ==
    \A t \in Threads :
        /\ attempt[t] = Len(SelectSeq(resp_log[t], NotOk))
        /\ (FetchReturned(t) /\ ~IsNone(soup[t]))
               => Is2xx(resp_log[t][Len(resp_log[t])])

Sum2Pow(k) == 2 ^ k - 1

\* C25: fetch_page sleeps 2^i between attempt i and attempt i+1 and nowhere
\* else: a call that made k attempts has slept k-1 times, 2^(k-1) - 1 in
\* total, when it returns, with a document or with the terminal failure
C25_BackoffBetweenAttempts ==
    \A t \in Threads :
        /\ \A i \in 1 .. Len(slept[t]) : slept[t][i] = 2 ^ (i - 1)
        /\ FetchReturned(t) => Len(slept[t]) = Len(resp_log[t]) - 1
\* C24: the job id is a function of the run time alone, and no two entries
\* of the job list share a job id, whether schedule_scrape was called
\* before or after start(): a second request for an instant that is
\* already scheduled adds no second entry
C24_JobIdsUnique ==
    \A i, j \in 1 .. Len(scheduled_jobs) :
        /\ scheduled_jobs[i].run_date = scheduled_jobs[j].run_date
              <=> scheduled_jobs[i].job_id = scheduled_jobs[j].job_id
        /\ i # j => scheduled_jobs[i].job_id # scheduled_jobs[j].job_id
RECURSIVE SumInserted(_)
SumInserted(rows) ==
    IF rows = << >> THEN 0 ELSE Head(rows).quotes_inserted + SumInserted(Tail(rows))

\* C26: every execution_history row a pipeline run writes has
\* 0 <= quotes_inserted <= quotes_scraped, quotes_scraped being the number
\* of records the run scraped and quotes_inserted what its insert_quotes
\* returned for them: the row is written from the run's own batch and
\* return value, and the rows the ledger counts as inserted are in the
\* table
C26_LedgerCountsBounded ==
    /\ \A i \in 1 .. Len(history_tbl) :
          /\ 0 <= history_tbl[i].quotes_inserted
          /\ history_tbl[i].quotes_inserted <= history_tbl[i].quotes_scraped
    /\ SumInserted(history_tbl) <= Len(quotes_tbl) - Len(tbl_start)
    /\ \A t \in Threads :
          pc[t] = "inserted" => 0 <= Val(ret[t]) /\ Val(ret[t]) <= Len(batch[t])

\* a run that scraped one record already stored has written its row: 0 of 1
C26_Witness ==
    \E i \in 1 .. Len(history_tbl) :
        history_tbl[i].quotes_inserted = 0 /\ history_tbl[i].quotes_scraped = 1
IsPrefixSeq(a, b) == Len(a) <= Len(b) /\ SubSeq(b, 1, Len(a)) = a

StoreOnlyGrows ==
    /\ IsPrefixSeq(quotes_tbl, quotes_tbl')
    /\ IsPrefixSeq(history_tbl, history_tbl')

\* C27: the store only grows and the first writer wins: whatever
\* insert_quotes, log_execution, init_db, get_all_quotes and get_statistics
\* calls are made, every step leaves each quote row and each
\* execution_history row there was in place with its fields unchanged; a
\* record whose text is stored does not touch the stored row
C27_StoreOnlyGrows == [][StoreOnlyGrows]_vars

\* the stored text p was offered again with another author, the call has
\* returned, a ledger row was written and the table was read since
C27_Witness ==
    /\ tbl_start # << >>
    /\ Len(quotes_tbl) > Len(tbl_start)
    /\ quotes_tbl[1] = tbl_start[1]
    /\ history_tbl # << >>
    /\ db_call.op = "get_statistics"
    /\ pc["main"] = "inserted"
    /\ \E i \in 1 .. Len(batch["main"]) :
          /\ batch["main"][i].text = tbl_start[1].text
          /\ batch["main"][i].author # tbl_start[1].author

\* C30: init_db on a store that holds quotes and ledger rows leaves every
\* quote row and every execution_history row as it was, and the uniqueness
\* of text stays in force afterwards
C30_InitDbIdempotent ==
    /\ db_call.op = "init_db" =>
          /\ IsPrefixSeq(db_call.quotes_before, quotes_tbl)
          /\ IsPrefixSeq(db_call.history_before, history_tbl)
    /\ NoDuplicateText(quotes_tbl)

\* init_db ran on a store with a quote row and a ledger row, and a record
\* with the stored text has been offered and refused
C30_Witness ==
    /\ db_call.op = "init_db"
    /\ db_call.quotes_before # << >>
    /\ db_call.history_before # << >>
    /\ pc["main"] = "inserted"
    /\ batch["main"] # << >>
    /\ Val(ret["main"]) = 0
\* a scrape_all_pages call of the thread is under way
InRun(t) == pc[t] \in { "while", "fetch", "body" }

Max0(n) == IF n > 0 THEN n ELSE 0

PagesOk(t) == \A i \in 1 .. Len(fetched[t]) : ~IsNone(fetched[t][i])

\* the cap is resolved at the call and kept to the end of the run, and the
\* pages visited follow it
CapFixed(t) ==
    /\ (~InRun(t) /\ InRun(t)') =>
           max_pages'[t] = IF IsNone(cap_arg'[t]) THEN MAX_PAGES ELSE Val(cap_arg'[t])
    /\ InRun(t) => max_pages'[t] = max_pages[t] /\ cap_arg'[t] = cap_arg[t]
    /\ Len(visited[t]) <= Max0(max_pages[t])
    /\ (pc[t] = "scraped" /\ PagesOk(t)) => Len(visited[t]) = Max0(max_pages[t])

\* C28: the page cap of a run is fixed when the run starts: the explicit
\* max_pages when there is one, else the value ScraperConfig.MAX_PAGES has
\* at the call; a change of ScraperConfig.MAX_PAGES by the menu while the
\* run is in progress changes neither the cap nor the pages the run visits
C28_CapFixedAtStart == [][\A t \in Threads : CapFixed(t)]_vars

\* a run started without a cap while the limit was 3 is on its third page,
\* the menu having set the limit to 1 in between
C28_Witness ==
    /\ pc["sched"] = "fetch"
    /\ IsNone(cap_arg["sched"])
    /\ page_num["sched"] = 3
    /\ max_pages["sched"] = 3
    /\ MAX_PAGES = 1

\* what is left of a run, as a number every step of the run makes smaller:
\* the pages still allowed, each worth a while test, RETRY_ATTEMPTS
\* requests, their end and the loop body
Variant(t) ==
    IF ~InRun(t) THEN 0
    ELSE Max0(max_pages[t] - page_num[t] + 1) * (RETRY_ATTEMPTS + 4)
         + (CASE pc[t] = "while" -> RETRY_ATTEMPTS + 3
              [] pc[t] = "fetch" -> RETRY_ATTEMPTS - attempt[t] + 2
              [] pc[t] = "body" -> 1)

RunBounded(t) ==
    /\ InRun(t) => Variant(t)' < Variant(t)
    /\ \A i \in 1 .. Len(visited[t]) : visited[t][i] = i
    /\ Len(visited[t]) <= Max0(max_pages[t])
    /\ Len(get_log[t]) <= RETRY_ATTEMPTS
    /\ max_pages[t] <= 0 =>
          /\ pc[t] \notin { "fetch", "body" }
          /\ visited[t] = << >>
          /\ pc[t] = "scraped" => all_quotes[t] = << >>

====
